---- MODULE Spec2Model ----
(***************************************************************************)
(* Import path resolution of src/src/utils.rs: the lexical path cleaner,   *)
(* the library resolver, the absolute import resolver and the common       *)
(* ancestor finder, over a small file system.                              *)
(*                                                                         *)
(* A path is the text of a std::path::Path, kept as a sequence of tokens:  *)
(* the separator "/" or one whole segment (the text between separators).   *)
(* Two segments are never adjacent (they would be one segment).  A path    *)
(* component is written as its os-string: "/" is RootDir, "." CurDir,      *)
(* ".." ParentDir and any other segment Normal(segment).                   *)
(***************************************************************************)
EXTENDS Integers, Sequences, FiniteSets, TLC

VARIABLES fs, pc, fn, args, ret, parent

vars == <<fs, pc, fn, args, ret, parent>>

\* ------------------------------------------------------------------ bounds

\* Longest path text (in tokens) given to clean_solidity_path.
MaxLen == 7
\* Longest path text (in tokens) given to common_ancestor.
MaxAncLen == 3
\* Longest import text (in tokens) given to the two resolvers.
MaxImportLen == 3
\* Most library roots in one resolve_library call.
MaxLibs == 2
\* the longest collection of paths handed to common_ancestor_all
MaxPaths == 3
\* the most pieces (statements, line ends) a generated source text has
MaxPieces == 3
\* the longest library name given to library_fully_qualified_placeholder
MaxNameLen == 40
\* the longest library name, in bytes, given to library_hash_placeholder
MaxHashNameLen == 3

\* ------------------------------------------------------------- path texts

Sep == "/"
CurDir == "."
ParentDir == ".."
Names == {"a", "b", "src"}
Segments == Names \cup {CurDir, ParentDir}
Tokens == Segments \cup {Sep}

Max(S) == CHOOSE x \in S : \A y \in S : y <= x
Min(S) == CHOOSE x \in S : \A y \in S : x <= y

\* Every path text of at most n tokens; two segments never touch.
RECURSIVE PathTexts(_)
PathTexts(n) ==
  IF n = 0 THEN {<<>>}
  ELSE LET shorter == PathTexts(n - 1)
           longest == {s \in shorter : Len(s) = n - 1}
       IN shorter \cup {Append(s, t) : s \in longest, t \in {Sep}}
                  \cup {Append(s, t) : s \in {x \in longest : x = <<>> \/ x[Len(x)] = Sep},
                                       t \in Segments}

\* Option<T> and Result<T, E>: the error value itself is never inspected.
None == [some |-> FALSE, val |-> <<>>]
Some(v) == [some |-> TRUE, val |-> v]

IsNormal(c) == c \notin {Sep, CurDir, ParentDir}

\* Path::components on unix: a leading separator is RootDir, a "." is kept
\* only as the very first segment of a rootless path, empty segments
\* (repeated or trailing separators) and every other "." are skipped.
IsComponentAt(s, i) ==
  IF s[i] = Sep THEN i = 1
  ELSE IF s[i] = CurDir THEN i = 1
  ELSE TRUE

CompIdx(s) == {i \in 1..Len(s) : IsComponentAt(s, i)}

RECURSIVE ComponentsFrom(_, _)
ComponentsFrom(s, i) ==
  IF i > Len(s) THEN <<>>
  ELSE (IF IsComponentAt(s, i) THEN <<s[i]>> ELSE <<>>) \o ComponentsFrom(s, i + 1)

components(s) == ComponentsFrom(s, 1)

\* PartialEq for Path compares the components.
PathEq(p, q) == components(p) = components(q)

is_absolute(p) == Len(p) > 0 /\ p[1] = Sep

\* PathBuf::push: an absolute path replaces the buffer, otherwise a separator
\* is added unless the buffer is empty or already ends with one.
push(buf, p) ==
  IF is_absolute(p) THEN p
  ELSE IF Len(buf) > 0 /\ buf[Len(buf)] # Sep THEN buf \o <<Sep>> \o p
  ELSE buf \o p

join(base, p) == push(base, p)

\* FromIterator<Component> for PathBuf: push each component in turn.
RECURSIVE collect(_)
collect(cs) ==
  IF cs = <<>> THEN <<>>
  ELSE push(collect(SubSeq(cs, 1, Len(cs) - 1)), <<cs[Len(cs)]>>)

\* Path::parent: the text up to the component before the last one; absent
\* when there is no component or the last one is the root.
path_parent(s) ==
  LET idx == CompIdx(s) IN
  IF idx = {} THEN None
  ELSE LET last == Max(idx) IN
       IF s[last] = Sep THEN None
       ELSE LET before == {i \in idx : i < last}
            IN Some(SubSeq(s, 1, IF before = {} THEN 0 ELSE Max(before)))

\* source.strip_prefix(first_dir), first_dir being the first component: the
\* text from the second component to the last one.
strip_prefix(s) ==
  LET idx == CompIdx(s)
      rest == idx \ {Min(idx)}
  IN IF rest = {} THEN <<>> ELSE SubSeq(s, Min(rest), Max(idx))

\* ------------------------------------------------------ clean_solidity_path

\* A step that lets a ".." cancel whatever is on top of the output stack.
CleanStepPopAny(new_path, component) ==
  CASE component = CurDir -> new_path
    [] component = ParentDir ->
         IF Len(new_path) > 0
         THEN SubSeq(new_path, 1, Len(new_path) - 1)
         ELSE Append(new_path, component)
    [] OTHER -> Append(new_path, component)

\* A step that pushes a "." like any other component.
CleanStepKeepCurDir(new_path, component) ==
  CASE component = ParentDir ->
         IF Len(new_path) > 0 /\ IsNormal(new_path[Len(new_path)])
         THEN SubSeq(new_path, 1, Len(new_path) - 1)
         ELSE Append(new_path, component)
    [] OTHER -> Append(new_path, component)

\* One turn of the loop over the components (the match on the component).
clean_step(new_path, component) ==
  CASE component = CurDir -> new_path
    [] component = ParentDir ->
         IF Len(new_path) > 0 /\ IsNormal(new_path[Len(new_path)])
         THEN SubSeq(new_path, 1, Len(new_path) - 1)
         ELSE Append(new_path, component)
    [] OTHER -> Append(new_path, component)

RECURSIVE clean_loop(_, _, _)
clean_loop(cs, i, new_path) ==
  IF i > Len(cs) THEN new_path
  ELSE clean_loop(cs, i + 1, clean_step(new_path, cs[i]))

\* A cleaner that looks at the previous component of the input, not at the
\* top of the output stack, to decide whether a ".." cancels.
RECURSIVE CleanByInputLoop(_, _, _)
CleanByInputLoop(cs, i, new_path) ==
  IF i > Len(cs) THEN new_path
  ELSE CleanByInputLoop(cs, i + 1,
         IF cs[i] = ParentDir /\ ~(i > 1 /\ IsNormal(cs[i - 1]))
         THEN Append(new_path, cs[i])
         ELSE clean_step(new_path, cs[i]))

CleanByInput(original_path) ==
  collect(CleanByInputLoop(components(original_path), 1, <<>>))

clean_solidity_path(original_path) ==
  collect(clean_loop(components(original_path), 1, <<>>))

\* --------------------------------------------------------- common_ancestor

\* The loop over a.zip(b): acc is (ret, found).
RECURSIVE ancestor_loop(_, _, _, _)
ancestor_loop(ca, cb, i, acc) ==
  IF i > Len(ca) \/ i > Len(cb) THEN acc
  ELSE IF ca[i] = cb[i]
       THEN ancestor_loop(ca, cb, i + 1,
                          [ret |-> push(acc.ret, <<ca[i]>>), found |-> TRUE])
       ELSE acc

\* The loop without its break: every agreeing position is pushed.
RECURSIVE AncestorLoopNoBreak(_, _, _, _)
AncestorLoopNoBreak(ca, cb, i, acc) ==
  IF i > Len(ca) \/ i > Len(cb) THEN acc
  ELSE AncestorLoopNoBreak(ca, cb, i + 1,
         IF ca[i] = cb[i]
         THEN [ret |-> push(acc.ret, <<ca[i]>>), found |-> TRUE]
         ELSE acc)

CommonAncestorNoBreak(a, b) ==
  LET r == AncestorLoopNoBreak(components(a), components(b), 1,
                               [ret |-> <<>>, found |-> FALSE])
  IN IF r.found THEN Some(r.ret) ELSE None

common_ancestor(a, b) ==
  LET r == ancestor_loop(components(a), components(b), 1,
                         [ret |-> <<>>, found |-> FALSE])
  IN IF r.found THEN Some(r.ret) ELSE None

\* ------------------------------------------------------ common_ancestor_all

\* A fold that skips a path sharing nothing with ret instead of giving up.
RECURSIVE AncestorAllLoopSkipAbsent(_, _, _)
AncestorAllLoopSkipAbsent(paths, i, acc) ==
  IF i > Len(paths) THEN Some(acc)
  ELSE LET r == common_ancestor(acc, paths[i])
       IN AncestorAllLoopSkipAbsent(paths, i + 1, IF r.some THEN r.val ELSE acc)

CommonAncestorAllSkipAbsent(paths) ==
  IF paths = <<>> THEN None
  ELSE AncestorAllLoopSkipAbsent(paths, 2, paths[1])

\* for path in iter: acc is ret, paths[i] the next item of the iterator.
RECURSIVE ancestor_all_loop(_, _, _)
ancestor_all_loop(paths, i, acc) ==
  IF i > Len(paths) THEN Some(acc)
  ELSE LET r == common_ancestor(acc, paths[i])
       IN IF r.some THEN ancestor_all_loop(paths, i + 1, r.val) ELSE None

\* iter.next()? is absent for an empty collection.
common_ancestor_all(paths) ==
  IF paths = <<>> THEN None
  ELSE ancestor_all_loop(paths, 2, paths[1])

\* ------------------------------------------------------------ file system

\* The nodes the file system may hold, each the names from "/" down: a
\* library tree a/{b, src/b} and, nested in it, a/a/{b, src/b}.  "b" names
\* regular files, "a" and "src" directories.  "/" always exists and is the
\* process's current directory.
FsNodes ==
  { <<"a">>, <<"a", "b">>, <<"a", "src">>, <<"a", "src", "b">>,
    <<"a", "a">>, <<"a", "a", "b">>, <<"a", "a", "src">>, <<"a", "a", "src", "b">> }

\* The names of regular files; every other name is a directory's.
FileNames == {"b", "T.sol", "t.SOL"}

IsFileNode(n) == n[Len(n)] \in FileNames

IsDir(n) == n = <<>> \/ (n \in fs /\ ~IsFileNode(n))

\* Path resolution by the operating system: the node reached after the
\* first i tokens of s, as a set with that node, or empty when a step fails
\* (a missing entry, or a step through something that is no directory).
RECURSIVE namei(_, _)
namei(s, i) ==
  IF i = 0 THEN {<<>>}
  ELSE LET before == namei(s, i - 1) IN
       IF before = {} THEN {}
       ELSE LET cur == CHOOSE n \in before : TRUE IN
            CASE s[i] = Sep -> IF IsDir(cur) THEN {cur} ELSE {}
              [] s[i] = CurDir -> {cur}
              [] s[i] = ParentDir ->
                   {IF cur = <<>> THEN cur ELSE SubSeq(cur, 1, Len(cur) - 1)}
              [] OTHER -> IF Append(cur, s[i]) \in fs THEN {Append(cur, s[i])} ELSE {}

\* Path::exists / Path::metadata().is_ok(): the empty path does not exist.
exists(s) == s # <<>> /\ namei(s, Len(s)) # {}

\* --------------------------------------------------------- resolve_library

\* The two candidates of one library root, in the order they are tried.
lib_direct(lib, source) == join(lib, source)

lib_src(lib, source) ==
  join(join(join(lib, <<components(source)[1]>>), <<"src">>), strip_prefix(source))

\* The loop over the library roots, with the src convention tried first.
RECURSIVE LibraryLoopSrcFirst(_, _, _)
LibraryLoopSrcFirst(libs, i, source) ==
  IF i > Len(libs) THEN None
  ELSE IF exists(lib_src(libs[i], source)) THEN Some(lib_src(libs[i], source))
  ELSE IF exists(lib_direct(libs[i], source)) THEN Some(lib_direct(libs[i], source))
  ELSE LibraryLoopSrcFirst(libs, i + 1, source)

\* The loop over the library roots.
RECURSIVE library_loop(_, _, _)
library_loop(libs, i, source) ==
  IF i > Len(libs) THEN None
  ELSE IF exists(lib_direct(libs[i], source)) THEN Some(lib_direct(libs[i], source))
  ELSE IF exists(lib_src(libs[i], source)) THEN Some(lib_src(libs[i], source))
  ELSE library_loop(libs, i + 1, source)

\* A resolver that returns a rooted import only when it exists.
ResolveLibraryRootChecked(libs, source) ==
  LET cs == components(source) IN
  IF cs = <<>> THEN None
  ELSE CASE IsNormal(cs[1]) -> library_loop(libs, 1, source)
         [] cs[1] = Sep -> IF exists(source) THEN Some(source) ELSE None
         [] OTHER -> None

resolve_library(libs, source) ==
  LET cs == components(source) IN
  IF cs = <<>> THEN None
  ELSE CASE IsNormal(cs[1]) -> library_loop(libs, 1, source)
         [] cs[1] = Sep -> Some(source)
         [] OTHER -> None

is_local_source_name(libs, source) == ~resolve_library(libs, source).some

\* --------------------------------------------- normalize_solidity_import_path

Ok(v) == [ok |-> TRUE, val |-> v]
Err == [ok |-> FALSE, val |-> <<>>]

\* dunce::simplified(..).to_slash_lossy(): on unix the text is left as it is.
to_slash(p) == p

\* A normalizer that returns the joined path as it was written.
NormalizeReturnsOriginal(directory, import_path) ==
  LET original == join(directory, import_path)
      normalized == to_slash(clean_solidity_path(original))
  IN IF exists(normalized) THEN Ok(original) ELSE Err

normalize_solidity_import_path(directory, import_path) ==
  LET original == join(directory, import_path)
      cleaned == clean_solidity_path(original)
      normalized == to_slash(cleaned)
  IN IF exists(normalized) THEN Ok(normalized) ELSE Err

\* ------------------------------------------------------------ canonicalize

\* The absolute text of a node: "/" and the names, one separator between.
RECURSIVE NodeText(_)
NodeText(n) ==
  IF n = <<>> THEN <<Sep>>
  ELSE IF Len(n) = 1 THEN <<Sep, n[1]>>
  ELSE NodeText(SubSeq(n, 1, Len(n) - 1)) \o <<Sep, n[Len(n)]>>

\* dunce::canonicalize on unix is std::fs::canonicalize, realpath(3): the
\* operating system resolves the path from the current directory, every
\* step through an existing directory, and answers the absolute text of the
\* node reached; an error when a step fails or the path is empty.
canonicalize(path) ==
  IF exists(path)
  THEN Ok(NodeText(CHOOSE n \in namei(path, Len(path)) : TRUE))
  ELSE Err

\* ------------------------------------------------ resolve_absolute_library

\* A loop test that compares the texts, not the components.
AtRootByText(p, root) == p = root

\* The test of the while loop, negated: parent == root.
at_root(p, root) == PathEq(p, root)

\* ------------------------------------------------------- find_import_paths

\* A source text is a sequence of tokens: the words RE_SOL_IMPORT spells
\* out, an identifier, the punctuation it names, blanks and line ends, and
\* any other text (a path, a comment) as one token that starts with no
\* word character.
DQ == "\""
SQ == "'"
IsSpaceTok(t) == t \in {" ", "\n"}
IsWordTok(t) == t \in {"import", "as", "from", "T"}

\* hi, hi - 1, ..., lo: the end positions a greedy repetition tries.
Down(hi, lo) == [k \in 1..(hi - lo + 1) |-> hi - k + 1]

RECURSIVE Concat(_)
Concat(seqs) == IF seqs = <<>> THEN <<>> ELSE Head(seqs) \o Concat(Tail(seqs))

\* The positions of a text: before each token and after the last.
Pos(s) == 1..(Len(s) + 1)

\* Concatenation of patterns: every way the first may end, in the order
\* the matcher prefers them, followed by every way the rest may end from
\* there; rest gives these for each position.
Then(ends, rest) == Concat([k \in 1..Len(ends) |-> rest[ends[k]]])

\* The same for matches that carry a capture: only the end moves.
ThenM(ms, rest) ==
  Concat([k \in 1..Len(ms) |->
            [j \in 1..Len(rest[ms[k].end]) |->
               [ms[k] EXCEPT !.end = rest[ms[k].end][j]]]])

\* x? : x first, nothing second.
opt(ends, i) == ends \o <<i>>

lit(s, i, t) == IF i <= Len(s) /\ s[i] = t THEN <<i + 1>> ELSE <<>>

SpaceRunEnd(s, i) == Min({k \in i..(Len(s) + 1) : k > Len(s) \/ ~IsSpaceTok(s[k])})
WordRunEnd(s, i) == Min({k \in i..(Len(s) + 1) : k > Len(s) \/ ~IsWordTok(s[k])})
LineEnd(s, i) == Min({k \in i..(Len(s) + 1) : k > Len(s) \/ s[k] = "\n"})

\* \s*  \s+  \w+
space_star(s, i) == Down(SpaceRunEnd(s, i), i)
space_plus(s, i) == Down(SpaceRunEnd(s, i), i + 1)
word_plus(s, i) == Down(WordRunEnd(s, i), i + 1)

\* \s+as\s+\w+
as_word(s, i) ==
  Then(space_plus(s, i), [a \in Pos(s) |->
  Then(lit(s, a, "as"), [b \in Pos(s) |->
  Then(space_plus(s, b), [c \in Pos(s) |-> word_plus(s, c)])])])

\* \s*,\s*
comma(s, i) ==
  Then(space_star(s, i), [a \in Pos(s) |->
  Then(lit(s, a, ","), [b \in Pos(s) |-> space_star(s, b)])])

\* \w+(?:\s+as\s+\w+)?(?:\s*,\s*)?
item(s, i) ==
  Then(word_plus(s, i), [a \in Pos(s) |->
  Then(opt(as_word(s, a), a), [b \in Pos(s) |-> opt(comma(s, b), b)])])

\* (?: item )+ : one more item first, stopping second.
RECURSIVE items_plus(_, _)
items_plus(s, i) ==
  Then(item(s, i), [e \in Pos(s) |-> items_plus(s, e) \o <<e>>])

\* \{\s*(?: item )+\s*\}
braces(s, i) ==
  Then(lit(s, i, "{"), [a \in Pos(s) |->
  Then(space_star(s, a), [b \in Pos(s) |->
  Then(items_plus(s, b), [c \in Pos(s) |->
  Then(space_star(s, c), [d \in Pos(s) |-> lit(s, d, "}")])])])])

\* \w+(?:\s+as\s+\w+)?
named(s, i) == Then(word_plus(s, i), [a \in Pos(s) |-> opt(as_word(s, a), a)])

\* \*\s+as\s+\w+
star(s, i) == Then(lit(s, i, "*"), [a \in Pos(s) |-> as_word(s, a)])

\* \s+from\s+
from_clause(s, i) ==
  Then(space_plus(s, i), [a \in Pos(s) |->
  Then(lit(s, a, "from"), [b \in Pos(s) |-> space_plus(s, b)])])

\* q(?P<slot>.*)q : the dot takes everything up to the end of the line
\* and gives back one character at a time until a closing quote follows.
quoted(s, i, q, slot) ==
  IF i <= Len(s) /\ s[i] = q
  THEN LET ends == Down(LineEnd(s, i + 1), i + 1)
       IN Concat([k \in 1..Len(ends) |->
                    IF ends[k] <= Len(s) /\ s[ends[k]] = q
                    THEN <<[end |-> ends[k] + 1, lo |-> i + 1, hi |-> ends[k],
                            slot |-> slot]>>
                    ELSE <<>>])
  ELSE <<>>

\* (?:"(?P<p1>.*)"|'(?P<p2>.*)')(?:\s+as\s+\w+)?
bare_import(s, i) ==
  ThenM(quoted(s, i, DQ, 1) \o quoted(s, i, SQ, 2),
        [e \in Pos(s) |-> opt(as_word(s, e), e)])

\* (?:named|star|braces)\s+from\s+(?:"(?P<p3>.*)"|'(?P<p4>.*)')
from_import(s, i) ==
  Then(named(s, i) \o star(s, i) \o braces(s, i), [a \in Pos(s) |->
  Then(from_clause(s, a), [b \in Pos(s) |->
    quoted(s, b, DQ, 3) \o quoted(s, b, SQ, 4)])])

\* RE_SOL_IMPORT tried at position i: every match, the preferred one first.
match_at(s, i) ==
  Then(lit(s, i, "import"), [a \in Pos(s) |->
  Then(space_plus(s, a), [b \in Pos(s) |->
  ThenM(bare_import(s, b) \o from_import(s, b), [e \in Pos(s) |->
  Then(space_star(s, e), [f \in Pos(s) |-> lit(s, f, ";")])])])])

\* Regex::captures_iter: the match at the first position at or after `at`
\* that has one, then the same again from where that match ended.
RECURSIVE captures_iter(_, _)
captures_iter(s, at) ==
  IF at > Len(s) THEN <<>>
  ELSE LET ms == match_at(s, at)
       IN IF ms = <<>> THEN captures_iter(s, at + 1)
          ELSE <<ms[1]>> \o captures_iter(s, ms[1].end)

\* cap.name("p1").or_else(p2).or_else(p3).or_else(p4): the one slot of
\* the match that took part, as the text it covers.
find_import_paths(contract) ==
  LET caps == captures_iter(contract, 1)
  IN [k \in 1..Len(caps) |-> SubSeq(contract, caps[k].lo, caps[k].hi - 1)]

\* ------------------------------------- library_fully_qualified_placeholder

\* .take(36)
PlaceholderLen == 36

\* The name cut to the length, with no fill behind a short one.
PlaceholderWithoutFill(name) ==
  SubSeq(name, 1, IF Len(name) < PlaceholderLen THEN Len(name) ELSE PlaceholderLen)

\* name.chars().chain(repeat('_')).take(36).collect(): the characters of
\* the name while they last, '_' from then on, and of these the first 36.
library_fully_qualified_placeholder(name) ==
  [i \in 1..PlaceholderLen |-> IF i <= Len(name) THEN name[i] ELSE "_"]

\* ------------------------------------------------- library_hash_placeholder

\* alloy_primitives::keccak256 gives 32 bytes for any byte string.  The
\* digest is not worked out bit by bit here: a fixed mixing of the bytes
\* stands for it, which like the digest depends on every byte and on its
\* place in the name and on nothing else.
RECURSIVE Absorb(_, _)
Absorb(bytes, i) ==
  IF i = 0 THEN 1 ELSE (Absorb(bytes, i - 1) * 31 + bytes[i] + i) % 65521

keccak256(bytes) ==
  [i \in 1..32 |-> ((Absorb(bytes, Len(bytes)) + 1) * (2 * i + 1) + i * i) % 256]

\* hash[..17]
HashLen == 17

\* A hash that also takes in how much the file system holds.
LibraryHashOfNameAndFs(name) ==
  SubSeq(keccak256(name \o <<Cardinality(fs)>>), 1, HashLen)

library_hash(name) == SubSeq(keccak256(name), 1, HashLen)

\* hex::Buffer::<17, false>::format: two lower-case digits a byte, the
\* high half first, and no prefix.
HexDigits ==
  <<"0", "1", "2", "3", "4", "5", "6", "7", "8", "9", "a", "b", "c", "d", "e", "f">>

hex_format(bytes) ==
  Concat([i \in 1..Len(bytes) |->
            <<HexDigits[(bytes[i] \div 16) + 1], HexDigits[(bytes[i] % 16) + 1]>>])

library_hash_placeholder(name) ==
  <<"$">> \o hex_format(library_hash(name)) \o <<"$">>

\* ---------------------------------------- find_case_sensitive_existing_file

\* Path::file_name: the last component when it is a plain name.
file_name(s) ==
  LET cs == components(s)
  IN IF cs # <<>> /\ IsNormal(cs[Len(cs)]) THEN Some(cs[Len(cs)]) ELSE None

\* The ASCII letters of a name in lower case, for the names in use.
to_ascii_lowercase(t) ==
  CASE t \in {"T.sol", "t.SOL", "T.SOL", "t.sol"} -> "t.sol"
    [] t \in {"B", "b"} -> "b"
    [] t \in {"SRC", "src"} -> "src"
    [] t \in {"A", "a"} -> "a"
    [] OTHER -> t

eq_ignore_ascii_case(x, y) == to_ascii_lowercase(x) = to_ascii_lowercase(y)

\* The entries below the root of the walk, without the root itself.
WalkDirBelowRoot(root) ==
  IF ~exists(root) THEN {}
  ELSE LET top == CHOOSE n \in namei(root, Len(root)) : TRUE
       IN IF IsDir(top)
          THEN {[path |-> join(root, <<n[Len(n)]>>), node |-> n] :
                  n \in {c \in fs : Len(c) = Len(top) + 1 /\ SubSeq(c, 1, Len(top)) = top}}
          ELSE {}

\* WalkDir::new(root).max_depth(1) after filter_map(Result::ok): nothing
\* when the root cannot be read; else the root itself, at depth 0, and when
\* it is a directory its entries, each as root joined with the entry's name.
WalkDir(root) ==
  IF ~exists(root) THEN {}
  ELSE {[path |-> root, node |-> CHOOSE n \in namei(root, Len(root)) : TRUE]}
         \cup WalkDirBelowRoot(root)

\* The results the call may give: find_map takes the first entry that
\* matches, in the order the directory is read, which nothing fixes.
find_case_sensitive_existing_file(non_existing) ==
  LET non_existing_file_name == file_name(non_existing)
      parent_dir == path_parent(non_existing)
  IN IF ~non_existing_file_name.some \/ ~parent_dir.some THEN {None}
     ELSE LET found ==
                {e \in WalkDir(parent_dir.val) :
                   /\ e.node # <<>> /\ IsFileNode(e.node)
                   /\ file_name(e.path).some
                   /\ eq_ignore_ascii_case(file_name(e.path).val,
                                           non_existing_file_name.val)
                   /\ file_name(e.path).val # non_existing_file_name.val}
          IN IF found = {} THEN {None} ELSE {Some(e.path) : e \in found}

\* ------------------------------------------------------------ the inputs

\* tests::can_clean_solidity_path: input text and expected text.
CleanTable ==
  { <<<<"a">>, <<"a">>>>,
    <<<<".", "/", "a">>, <<"a">>>>,
    <<<<"..", "/", "a">>, <<"..", "/", "a">>>>,
    <<<<"/", "a", "/">>, <<"/", "a">>>>,
    <<<<"/", "/", "a">>, <<"/", "a">>>>,
    <<<<"a", "/", "b">>, <<"a", "/", "b">>>>,
    <<<<"a", "/", "/", "b">>, <<"a", "/", "b">>>>,
    <<<<"/", "a", "/", "b">>, <<"/", "a", "/", "b">>>>,
    <<<<"a", "/", ".", "/", "b">>, <<"a", "/", "b">>>>,
    <<<<"a", "/", ".", "/", ".", "/", "b">>, <<"a", "/", "b">>>>,
    <<<<"/", "a", "/", "..", "/", "b">>, <<"/", "b">>>>,
    <<<<"a", "/", ".", "/", "..", "/", "b", "/", ".">>, <<"b">>>>,
    <<<<"a", "/", "b", "/", "c">>, <<"a", "/", "b", "/", "c">>>>,
    <<<<"a", "/", "b", "/", "..", "/", "c">>, <<"a", "/", "c">>>>,
    <<<<"a", "/", "b", "/", "..", "/", "..", "/", "c">>, <<"c">>>>,
    <<<<"a", "/", "b", "/", "..", "/", "..", "/", "..", "/", "c">>,
      <<"..", "/", "c">>>>,
    <<<<"a", "/", "..", "/", "b", "/", "..", "/", "..", "/", "c", "/", ".", "/",
        "Token.sol">>,
      <<"..", "/", "c", "/", "Token.sol">>>> }

CleanInputs == PathTexts(MaxLen) \cup {row[1] : row \in CleanTable}

\* tests::can_find_ancestor and tests::no_common_ancestor_path.
AncestorA == <<"/", "foo", "/", "bar", "/", "bar", "/", "test.txt">>
AncestorB == <<"/", "foo", "/", "bar", "/", "foo", "/", "example", "/", "constract.sol">>
NoAncestorA == <<"/", "foo", "/", "bar">>
NoAncestorB == <<".", "/", "bar", "/", "foo">>

AncestorInputs ==
  (PathTexts(MaxAncLen) \X PathTexts(MaxAncLen))
    \cup {<<AncestorA, AncestorB>>, <<NoAncestorA, NoAncestorB>>}

\* The doc example of common_ancestor_all and tests::can_find_all_ancestor.
AllDoc ==
  << <<"/", "foo", "/", "bar", "/", "baz">>,
     <<"/", "foo", "/", "bar", "/", "bar">>,
     <<"/", "foo", "/", "bar", "/", "foo">> >>
AllTest ==
  << <<"/", "foo", "/", "bar", "/", "foo", "/", "example.txt">>,
     <<"/", "foo", "/", "bar", "/", "foo", "/", "test.txt">>,
     <<"/", "foo", "/", "bar", "/", "bar", "/", "foo", "/", "bar">> >>

\* Every sequence of at most n members of S.
RECURSIVE Lists(_, _)
Lists(S, n) ==
  IF n = 0 THEN {<<>>}
  ELSE LET shorter == Lists(S, n - 1)
       IN shorter \cup {Append(l, x) : l \in {y \in shorter : Len(y) = n - 1}, x \in S}

\* The paths of the longer collections: rooted and rootless, nested in one
\* another, with a leading ".", a repeated and a trailing separator.
AllPaths ==
  { <<>>, <<".">>, <<"a">>, <<".", "/", "a">>, <<"a", "/", "b">>,
    <<"/">>, <<"/", "a">>, <<"/", "/", "a", "/">>, <<"/", "a", "/", "b">>,
    <<"/", "a", "/", "src">>, <<"/", "a", "/", "b", "/", "src">>, <<"/", "b">> }

\* Collections of up to two paths of any text within MaxAncLen, longer ones
\* over AllPaths, the two examples, and every rearrangement of the first.
AllInputs ==
  Lists(PathTexts(MaxAncLen), 2) \cup Lists(AllPaths, MaxPaths)
    \cup {AllTest}
    \cup {<<AllDoc[f[1]], AllDoc[f[2]], AllDoc[f[3]]>> :
            f \in {g \in [1..3 -> 1..3] : \A i, j \in 1..3 : g[i] = g[j] => i = j}}

\* Import statements in each of the four quoting slots, with and without
\* an alias, each with a path of its own.
BareDouble == <<"import", " ", DQ, "./p1.sol", DQ, ";">>
BareSingle == <<"import", " ", SQ, "./p2.sol", SQ, ";">>
FromDouble == <<"import", " ", "{", " ", "T", " ", "}", " ", "from", " ", DQ, "../p3.sol", DQ, ";">>
FromSingle == <<"import", " ", "*", " ", "as", " ", "T", " ", "from", " ", SQ, "../p4.sol", SQ, ";">>
BareAlias == <<"import", " ", DQ, "p5.sol", DQ, " ", "as", " ", "T", ";">>
FromNamed == <<"import", "\n", "{", "T", " ", "as", " ", "T", ",", "T", "}", " ", "from", "\n", DQ, "p6.sol", DQ, " ", ";">>

ImportPieces == {BareDouble, BareSingle, FromDouble, FromSingle, BareAlias, FromNamed}

\* What else a text holds: a line end, a blank, a pragma and a statement
\* with a string in it.
OtherPieces ==
  { <<"\n">>, <<" ">>, <<"pragma solidity ^0.8.0", ";">>,
    <<"T", " ", "=", " ", DQ, "x", DQ, ";">> }

\* tests::can_find_import_paths.
TestSource ==
  <<"//SPDX-License-Identifier: Unlicense", "\n", "pragma solidity ^0.8.0", ";", "\n",
    "import", " ", DQ, "hardhat/console.sol", DQ, ";", "\n",
    "import", " ", DQ, "../contract/Contract.sol", DQ, ";", "\n",
    "import", " ", "{", " ", "T", " ", "}", " ", "from", " ", DQ, "../Test.sol", DQ, ";", "\n",
    "import", " ", "{", " ", "T", " ", "}", " ", "from", " ", SQ, "../Test2.sol", SQ, ";", "\n">>

TestImports ==
  << <<"hardhat/console.sol">>, <<"../contract/Contract.sol">>, <<"../Test.sol">>,
     <<"../Test2.sol">> >>

\* Every import piece on a line of its own, one slot after the other.
OnePerLine ==
  BareSingle \o <<"\n">> \o FromDouble \o <<"\n">> \o BareAlias \o <<"\n">>
    \o FromSingle \o <<"\n">> \o FromNamed \o <<"\n">> \o BareDouble

SourceTexts ==
  {Concat(l) : l \in Lists(ImportPieces \cup OtherPieces, MaxPieces)}
    \cup {TestSource, OnePerLine}

\* Library names of every length up to MaxNameLen, three of each length,
\* written with two letters and the fill character itself.
NameChars == <<"L", "i", "_">>
NameOf(n, k) == [i \in 1..n |-> NameChars[((i + k) % Len(NameChars)) + 1]]
LibraryNames == {NameOf(n, k) : n \in 0..MaxNameLen, k \in 1..Len(NameChars)}

\* Library names as bytes: "L" and "i", up to MaxHashNameLen of them.
HashNames == Lists({76, 105}, MaxHashNameLen)

\* A directory /a with files that differ in case only, a directory of such
\* a name, and a subdirectory with one more such file.
CaseNodes ==
  { <<"a">>, <<"a", "b">>, <<"a", "T.sol">>, <<"a", "t.SOL">>, <<"a", "T.SOL">>,
    <<"a", "src">>, <<"a", "src", "T.sol">> }

CaseFsStates ==
  {S \in SUBSET CaseNodes :
     \A n \in S : Len(n) > 1 =>
       (SubSeq(n, 1, Len(n) - 1) \in S /\ ~IsFileNode(SubSeq(n, 1, Len(n) - 1)))}

\* The paths asked for: a file name in /a, in its subdirectory, below a
\* file, in a missing directory, alone, and paths without a file name.
CasePaths ==
  { <<"/", "a", "/", "t.sol">>, <<"a", "/", "t.sol">>, <<"/", "a", "/", "t.sol", "/">>,
    <<"/", "a", "/", "T.sol">>, <<"/", "a", "/", "B">>, <<"/", "a", "/", "SRC">>,
    <<"/", "a", "/", "src", "/", "t.sol">>, <<"/", "a", "/", "src", "/", "..", "/", "t.sol">>,
    <<"/", "a", "/", "T.sol", "/", "t.sol">>, <<"/", "a", "/", "b", "/", "B">>,
    <<"/", "b", "/", "t.sol">>, <<"t.sol">>, <<"A">>, <<"/", "a", "/", "..">>, <<"/">>, <<>> }

\* ------------------------------------------------------------ the machine

Init ==
  /\ fs = {}
  /\ pc = "idle"
  /\ fn = ""
  /\ args = <<>>
  /\ ret = None
  /\ parent = <<>>

\* The caller takes the result; the machine is ready for the next call.
Return ==
  /\ pc = "returned"
  /\ pc' = "idle"
  /\ fn' = ""
  /\ args' = <<>>
  /\ ret' = None
  /\ UNCHANGED <<fs, parent>>

CleanPath(p) ==
  /\ pc = "idle"
  /\ pc' = "returned"
  /\ fn' = "clean_solidity_path"
  /\ args' = <<p>>
  /\ ret' = clean_solidity_path(p)
  /\ UNCHANGED <<fs, parent>>

CommonAncestor(a, b) ==
  /\ pc = "idle"
  /\ pc' = "returned"
  /\ fn' = "common_ancestor"
  /\ args' = <<a, b>>
  /\ ret' = common_ancestor(a, b)
  /\ UNCHANGED <<fs, parent>>

CommonAncestorAll(paths) ==
  /\ pc = "idle"
  /\ pc' = "returned"
  /\ fn' = "common_ancestor_all"
  /\ args' = <<paths>>
  /\ ret' = common_ancestor_all(paths)
  /\ UNCHANGED <<fs, parent>>

PathNext ==
  \/ pc = "idle" /\ \E p \in CleanInputs : CleanPath(p)
  \/ pc = "idle" /\ \E ab \in AncestorInputs : CommonAncestor(ab[1], ab[2])
  \/ pc = "idle" /\ \E paths \in AllInputs : CommonAncestorAll(paths)
  \/ Return

\* The pure path functions, applied to every input within the bounds.
PathSpec == Init /\ [][PathNext]_vars

FindImportPaths(contract) ==
  /\ pc = "idle"
  /\ pc' = "returned"
  /\ fn' = "find_import_paths"
  /\ args' = <<contract>>
  /\ ret' = find_import_paths(contract)
  /\ UNCHANGED <<fs, parent>>

LibraryFullyQualifiedPlaceholder(name) ==
  /\ pc = "idle"
  /\ pc' = "returned"
  /\ fn' = "library_fully_qualified_placeholder"
  /\ args' = <<name>>
  /\ ret' = library_fully_qualified_placeholder(name)
  /\ UNCHANGED <<fs, parent>>

TextNext ==
  \/ pc = "idle" /\ \E contract \in SourceTexts : FindImportPaths(contract)
  \/ pc = "idle" /\ \E name \in LibraryNames : LibraryFullyQualifiedPlaceholder(name)
  \/ Return

\* The functions of source texts and names, applied to every input within
\* the bounds.
TextSpec == Init /\ [][TextNext]_vars

\* Another process creates a directory or a file, whatever this one is doing.
OtherProcessCreates(n) ==
  /\ n \notin fs
  /\ IsDir(SubSeq(n, 1, Len(n) - 1))
  /\ fs' = fs \cup {n}
  /\ UNCHANGED <<pc, fn, args, ret, parent>>

\* A call, the first or one that follows another call's return.
LibraryHashPlaceholder(name) ==
  /\ pc \in {"idle", "returned"}
  /\ pc' = "returned"
  /\ fn' = "library_hash_placeholder"
  /\ args' = <<name>>
  /\ ret' = library_hash_placeholder(name)
  /\ UNCHANGED <<fs, parent>>

HashNext ==
  \/ \E n \in FsNodes : OtherProcessCreates(n)
  \/ \E name \in HashNames : LibraryHashPlaceholder(name)
  \/ Return

\* library_hash_placeholder called again and again while the file system
\* changes under it.
HashSpec == Init /\ [][HashNext]_vars

\* A call of find_case_sensitive_existing_file about to be made, on any
\* file system over CaseNodes.
CaseInit ==
  /\ fs \in CaseFsStates
  /\ pc = "idle"
  /\ fn = ""
  /\ args = <<>>
  /\ ret = None
  /\ parent = <<>>

FindCaseSensitiveExistingFile(non_existing) ==
  /\ pc = "idle"
  /\ pc' = "returned"
  /\ fn' = "find_case_sensitive_existing_file"
  /\ args' = <<non_existing>>
  /\ ret' \in find_case_sensitive_existing_file(non_existing)
  /\ UNCHANGED <<fs, parent>>

CaseNext ==
  \/ pc = "idle" /\ \E non_existing \in CasePaths : FindCaseSensitiveExistingFile(non_existing)
  \/ Return

CaseSpec == CaseInit /\ [][CaseNext]_vars

\* Library roots of a call: "" (the current directory, as in
\* tests::can_determine_local_paths), "/a" inside it, and "/src", which
\* never exists.
LibRoots == {<<>>, <<"/", "a">>, <<"/", "src">>}

LibLists == UNION {[1..k -> LibRoots] : k \in 0..MaxLibs}

ImportTexts == PathTexts(MaxImportLen)

\* fs::create_dir: the parent is a directory and the entry is new.
CreateDir(n) ==
  /\ pc = "idle"
  /\ ~IsFileNode(n)
  /\ n \notin fs
  /\ IsDir(SubSeq(n, 1, Len(n) - 1))
  /\ fs' = fs \cup {n}
  /\ UNCHANGED <<pc, fn, args, ret, parent>>

\* File::create / fs::write of a new file.
CreateFile(n) ==
  /\ pc = "idle"
  /\ IsFileNode(n)
  /\ n \notin fs
  /\ IsDir(SubSeq(n, 1, Len(n) - 1))
  /\ fs' = fs \cup {n}
  /\ UNCHANGED <<pc, fn, args, ret, parent>>

ResolveLibrary(libs, source) ==
  /\ pc = "idle"
  /\ pc' = "returned"
  /\ fn' = "resolve_library"
  /\ args' = <<libs, source>>
  /\ ret' = resolve_library(libs, source)
  /\ UNCHANGED <<fs, parent>>

IsLocalSourceName(libs, source) ==
  /\ pc = "idle"
  /\ pc' = "returned"
  /\ fn' = "is_local_source_name"
  /\ args' = <<libs, source>>
  /\ ret' = is_local_source_name(libs, source)
  /\ UNCHANGED <<fs, parent>>

\* The directories imports are resolved against: rooted and relative to
\* the current directory, present or not.
NormDirs == {<<"/", "a">>, <<"/", "a", "/", "src">>, <<"a">>, <<"/">>}

NormalizeSolidityImportPath(directory, import_path) ==
  /\ pc = "idle"
  /\ pc' = "returned"
  /\ fn' = "normalize_solidity_import_path"
  /\ args' = <<directory, import_path>>
  /\ ret' = normalize_solidity_import_path(directory, import_path)
  /\ UNCHANGED <<fs, parent>>

Canonicalize(path) ==
  /\ pc = "idle"
  /\ pc' = "returned"
  /\ fn' = "canonicalize"
  /\ args' = <<path>>
  /\ ret' = canonicalize(path)
  /\ UNCHANGED <<fs, parent>>

Next ==
  \/ \E n \in FsNodes : CreateDir(n)
  \/ \E n \in FsNodes : CreateFile(n)
  \/ pc = "idle" /\ \E libs \in LibLists, source \in ImportTexts : ResolveLibrary(libs, source)
  \/ pc = "idle" /\ \E directory \in NormDirs, import_path \in ImportTexts :
       NormalizeSolidityImportPath(directory, import_path)
  \/ pc = "idle" /\ \E directory \in NormDirs, import_path \in ImportTexts :
       Canonicalize(join(directory, import_path))
  \/ pc = "idle" /\ \E libs \in LibLists, source \in ImportTexts : IsLocalSourceName(libs, source)
  \/ Return

\* The library resolver over a file system that grows between calls.
Spec == Init /\ [][Next]_vars

\* Project roots and working directories of resolve_absolute_library calls:
\* rooted and relative, with a trailing separator, with a "..", and a root
\* ("/src") that is no ancestor of any working directory.
AbsRoots == {<<"/">>, <<"/", "a", "/">>, <<>>, <<"/", "src">>}

AbsCwds ==
  { <<"/", "a", "/", "a", "/", "src">>, <<"/", "a", "/", "a">>, <<"/", "a">>, <<"/">>,
    <<"a", "/", "a">>, <<"/", "a", "/", "a", "/", "..">> }

\* The file systems CreateDir and CreateFile can build.
FsStates ==
  {S \in SUBSET FsNodes :
     \A n \in S : Len(n) > 1 =>
       (SubSeq(n, 1, Len(n) - 1) \in S /\ ~IsFileNode(SubSeq(n, 1, Len(n) - 1)))}

\* A call of resolve_absolute_library(root, cwd, import) about to start, on
\* any of the file systems.
WalkInit ==
  /\ fs \in FsStates
  /\ pc = "called"
  /\ fn = "resolve_absolute_library"
  /\ args \in AbsRoots \X AbsCwds \X ImportTexts
  /\ ret = None
  /\ parent = <<>>

\* let mut parent = cwd.parent()?  -- the working directory has a parent.
AbsEnter ==
  /\ pc = "called"
  /\ path_parent(args[2]).some
  /\ pc' = "walking"
  /\ parent' = path_parent(args[2]).val
  /\ UNCHANGED <<fs, fn, args, ret>>

\* let mut parent = cwd.parent()?  -- it has none: absent at once.
AbsNoParent ==
  /\ pc = "called"
  /\ ~path_parent(args[2]).some
  /\ pc' = "returned"
  /\ ret' = None
  /\ UNCHANGED <<fs, fn, args, parent>>

\* while parent != root: the root is reached, the loop ends, None.
WalkExit ==
  /\ pc = "walking"
  /\ at_root(parent, args[1])
  /\ pc' = "returned"
  /\ ret' = None
  /\ parent' = <<>>
  /\ UNCHANGED <<fs, fn, args>>

\* The import resolves in this ancestor: Some((parent, import)).
WalkFound ==
  /\ pc = "walking"
  /\ ~at_root(parent, args[1])
  /\ normalize_solidity_import_path(parent, args[3]).ok
  /\ pc' = "returned"
  /\ ret' = Some(<<parent, normalize_solidity_import_path(parent, args[3]).val>>)
  /\ parent' = <<>>
  /\ UNCHANGED <<fs, fn, args>>

\* parent = parent.parent()?  -- one directory up.
WalkUp ==
  /\ pc = "walking"
  /\ ~at_root(parent, args[1])
  /\ ~normalize_solidity_import_path(parent, args[3]).ok
  /\ path_parent(parent).some
  /\ parent' = path_parent(parent).val
  /\ UNCHANGED <<fs, pc, fn, args, ret>>

\* parent = parent.parent()?  -- no directory is left: None.
WalkExhausted ==
  /\ pc = "walking"
  /\ ~at_root(parent, args[1])
  /\ ~normalize_solidity_import_path(parent, args[3]).ok
  /\ ~path_parent(parent).some
  /\ pc' = "returned"
  /\ ret' = None
  /\ parent' = <<>>
  /\ UNCHANGED <<fs, fn, args>>

WalkNext ==
  \/ AbsEnter
  \/ AbsNoParent
  \/ WalkExit
  \/ WalkFound
  \/ WalkUp
  \/ WalkExhausted

\* One call of the absolute import resolver, one loop turn per step.  The
\* code is synchronous: a call that has started keeps taking its next step.
WalkSpec == WalkInit /\ [][WalkNext]_vars

\* ------------------------------------------------------- claims: the cleaner

CleanReturned == pc = "returned" /\ fn = "clean_solidity_path"

\* C4: clean_solidity_path is idempotent: cleaning the text it returned
\* gives that text again, for every input path.
C4_CleanIdempotent ==
  CleanReturned => clean_solidity_path(ret) = ret

\* Two plain segments cancelled by two ".." in a row.
C4_Witness ==
  /\ CleanReturned
  /\ args[1] = <<"a", "/", "b", "/", "..", "/", "..">>
  /\ ret = <<>>

\* The components of cs before its first plain one.
RECURSIVE NonPlainPrefix(_)
NonPlainPrefix(cs) ==
  IF cs = <<>> \/ IsNormal(cs[1]) THEN <<>>
  ELSE <<cs[1]>> \o NonPlainPrefix(Tail(cs))

DropCurDir(cs) == SelectSeq(cs, LAMBDA c : c # CurDir)

\* C5: the text returned by clean_solidity_path holds no "." segment and no
\* ".." right after a plain component; it is rooted exactly when the input
\* is, and the root marker and the ".." that come before the first plain
\* component of the input (nothing to cancel them) are kept as they are.
C5_CleanShape ==
  CleanReturned =>
    LET oc == components(ret)
        kept == DropCurDir(NonPlainPrefix(components(args[1])))
    IN /\ \A i \in 1..Len(ret) : ret[i] # CurDir
       /\ \A i \in 2..Len(oc) : oc[i] = ParentDir => ~IsNormal(oc[i - 1])
       /\ is_absolute(ret) <=> is_absolute(args[1])
       /\ Len(oc) >= Len(kept)
       /\ SubSeq(oc, 1, Len(kept)) = kept

\* A leading ".." kept, a plain segment cancelled, and a ".." that then meets
\* only the kept one.
C5_Witness ==
  /\ CleanReturned
  /\ args[1] = <<"..", "/", "a", "/", "..", "/", "..">>
  /\ ret = <<"..", "/", "..">>

\* The components with each leftmost pair (plain, "..") taken out, until no
\* such pair is left.
RECURSIVE Cancel(_)
Cancel(cs) ==
  LET hits == {i \in 1..(Len(cs) - 1) : IsNormal(cs[i]) /\ cs[i + 1] = ParentDir}
  IN IF hits = {} THEN cs
     ELSE LET i == Min(hits)
          IN Cancel(SubSeq(cs, 1, i - 1) \o SubSeq(cs, i + 2, Len(cs)))

\* C6: clean_solidity_path drops ".", lets a ".." cancel the output
\* component before it exactly when that one is plain and keeps it
\* otherwise, keeps roots and plain segments, and writes the result with
\* single separators and none at the end; the table of
\* tests::can_clean_solidity_path holds ("./a" gives "a", "a/b/../../../c"
\* gives "../c", "a/../b/../../c/./Token.sol" gives "../c/Token.sol", ...).
C6_CleanAlgorithm ==
  CleanReturned =>
    /\ components(ret) = Cancel(DropCurDir(components(args[1])))
    /\ \A i \in 1..Len(ret) :
         ret[i] = Sep => IF i = Len(ret) THEN i = 1 ELSE ret[i + 1] # Sep
    /\ \A row \in CleanTable : args[1] = row[1] => ret = row[2]

C6_Witness ==
  /\ CleanReturned
  /\ args[1] = <<"a", "/", "..", "/", "b", "/", "..", "/", "..", "/", "c", "/", ".",
                 "/", "Token.sol">>
  /\ ret = <<"..", "/", "c", "/", "Token.sol">>

\* ---------------------------------------------- claims: the library resolver

LibraryReturned == pc = "returned" /\ fn = "resolve_library"

PlainFirst(source) == components(source) # <<>> /\ IsNormal(components(source)[1])

\* Every candidate of a call, in the order the claim gives: root by root,
\* <root>/<import> and then <root>/<first component>/src/<rest>.
Candidates(libs, source) ==
  [k \in 1..(2 * Len(libs)) |->
     IF k % 2 = 1 THEN lib_direct(libs[(k + 1) \div 2], source)
     ELSE lib_src(libs[k \div 2], source)]

\* C1: for an import whose first component is a plain name, resolve_library
\* returns the first existing candidate, scanning the roots in the given
\* order and trying <root>/<import> before <root>/<first>/src/<rest> in
\* each root, and returns absent when no candidate of any root exists.
C1_FirstExistingCandidate ==
  (LibraryReturned /\ PlainFirst(args[2])) =>
    LET c == Candidates(args[1], args[2])
        hit == {k \in 1..Len(c) : exists(c[k])}
    IN IF hit = {} THEN ret = None ELSE ret = Some(c[Min(hit)])

\* The first root does not exist, the second holds the import only under
\* the src convention.
C1_Witness ==
  /\ LibraryReturned
  /\ args = << <<(<<"/", "src">>), (<<"/", "a">>)>>, <<"a", "/", "b">> >>
  /\ <<"a", "a", "b">> \notin fs
  /\ ret = Some(<<"/", "a", "/", "a", "/", "src", "/", "b">>)

\* C3: every path resolve_library returns as a present result exists in the
\* file system at the moment it is returned, for every import path and
\* every list of library roots.
C3_ResolvedPathExists ==
  (LibraryReturned /\ ret.some) => exists(ret.val)

AbsReturned == pc = "returned" /\ fn = "resolve_absolute_library"

\* The proper ancestors of cwd, as texts: cwd cut after each of its
\* components but the last, and the empty path above a rootless one.
AncestorTexts(cwd) ==
  LET idx == CompIdx(cwd) IN
  {SubSeq(cwd, 1, i) : i \in idx \ {Max(idx \cup {0})}}
    \cup (IF idx # {} /\ cwd[Min(idx \cup {Len(cwd)})] # Sep THEN {<<>>} ELSE {})

\* The ancestors between cwd and root, root excluded: those with no
\* ancestor equal to root at or below them.
Between(root, cwd) ==
  {d \in AncestorTexts(cwd) :
     \A e \in AncestorTexts(cwd) : Len(e) >= Len(d) => ~PathEq(e, root)}

ResolvesAt(d, import) == exists(clean_solidity_path(join(d, import)))

StrictlyBelow(p, root) ==
  LET cp == components(p)
      cr == components(root)
  IN /\ is_absolute(p) <=> is_absolute(root)
     /\ Len(cr) < Len(cp)
     /\ SubSeq(cp, 1, Len(cr)) = cr

\* The directories from cwd up to root, cwd included and root excluded.
ChainBelow(root, cwd) ==
  {d \in AncestorTexts(cwd) \cup {cwd} : StrictlyBelow(d, root)}

\* The root's immediate child on the path to cwd.
RootChild(root, cwd) ==
  CHOOSE d \in ChainBelow(root, cwd) :
    Len(components(d)) = Len(components(root)) + 1

\* C2: for every root, every working directory strictly below it and every
\* import that resolves only at the root's immediate child on the path to
\* the working directory, resolve_absolute_library returns a present
\* result.
C2_FoundAtRootChild ==
  (/\ AbsReturned
   /\ StrictlyBelow(args[2], args[1])
   /\ \A d \in ChainBelow(args[1], args[2]) :
        ResolvesAt(d, args[3]) <=> d = RootChild(args[1], args[2]))
    => ret.some

\* C7: resolve_absolute_library always terminates (every turn of its loop
\* leaves parent with fewer components than before, so the turns are at
\* most the components of the working directory), and returns absent
\* whenever no ancestor of the working directory between it and the root
\* (root excluded) has an existing normalized join with the import, also
\* when the root is no ancestor and the chain runs out.
C7_TerminatesAbsent ==
  /\ []((AbsReturned /\ \A d \in Between(args[1], args[2]) : ~ResolvesAt(d, args[3]))
          => ret = None)
  /\ [][(pc = "walking" /\ pc' = "walking")
          => Len(components(parent')) < Len(components(parent))]_vars

\* The root is no ancestor, the chain runs out above "/", nothing found
\* although the file system holds files.
C7_Witness ==
  /\ AbsReturned
  /\ args[1] = <<"/", "src">>
  /\ args[2] = <<"/", "a", "/", "a", "/", "src">>
  /\ args[3] = <<"src", "/", "src">>
  /\ <<"a", "a", "src", "b">> \in fs
  /\ ret = None

\* C8: a present result (ancestor, path) names the first ancestor on the
\* walk up from the working directory (nearest first, root never tried)
\* whose normalized join with the import exists, and path is that
\* normalized join: no nearer ancestor on the walk has an existing one.
C8_FirstAncestorWins ==
  (AbsReturned /\ ret.some) =>
    LET anc == ret.val[1]
        path == ret.val[2]
    IN /\ anc \in Between(args[1], args[2])
       /\ path = clean_solidity_path(join(anc, args[3]))
       /\ exists(path)
       /\ \A d \in Between(args[1], args[2]) :
            Len(d) > Len(anc) => ~ResolvesAt(d, args[3])

\* Found two levels up, after the nearest ancestor failed.
C8_Witness ==
  /\ AbsReturned
  /\ args[1] = <<"/">>
  /\ args[2] = <<"/", "a", "/", "a", "/", "src">>
  /\ args[3] = <<"src", "/", "b">>
  /\ ret = Some(<< <<"/", "a">>, <<"/", "a", "/", "src", "/", "b">> >>)

\* ---------------------------------------------- claims: the common ancestor

\* C10: common_ancestor(a, b) returns the longest prefix of components on
\* which a and b agree position by position, and is absent exactly when the
\* first components differ or one path has no component;
\* /foo/bar/bar/test.txt and /foo/bar/foo/example/constract.sol give
\* /foo/bar, /foo/bar and ./bar/foo give absent.
C10_CommonAncestor ==
  (pc = "returned" /\ fn = "common_ancestor") =>
    LET ca == components(args[1])
        cb == components(args[2])
        shorter == IF Len(ca) <= Len(cb) THEN Len(ca) ELSE Len(cb)
        n == Max({k \in 0..shorter : \A i \in 1..k : ca[i] = cb[i]})
    IN /\ ~ret.some <=> (ca = <<>> \/ cb = <<>> \/ ca[1] # cb[1])
       /\ ret.some => components(ret.val) = SubSeq(ca, 1, n)
       /\ args = <<AncestorA, AncestorB>> => ret = Some(<<"/", "foo", "/", "bar">>)
       /\ args = <<NoAncestorA, NoAncestorB>> => ret = None

\* Paths that agree, differ, and agree again further on.
C10_Witness ==
  /\ pc = "returned" /\ fn = "common_ancestor"
  /\ args = <<AncestorA, AncestorB>>
  /\ ret = Some(<<"/", "foo", "/", "bar">>)

\* ------------------------------------------ claims: the ancestor of many

\* The components every path of the collection starts with.
SharedPrefix(paths) ==
  LET cs == [i \in 1..Len(paths) |-> components(paths[i])]
      shortest == Min({Len(cs[i]) : i \in 1..Len(paths)})
      n == Max({k \in 0..shortest :
                  \A i \in 1..Len(paths) : \A j \in 1..k : cs[i][j] = cs[1][j]})
  IN SubSeq(cs[1], 1, n)

\* The collection in every order.
Rearranged(paths) ==
  LET n == Len(paths)
      perms == {g \in [1..n -> 1..n] : \A i, j \in 1..n : g[i] = g[j] => i = j}
  IN {[i \in 1..n |-> paths[f[i]]] : f \in perms}

\* The left-to-right fold of common_ancestor, one reduction after another.
RECURSIVE FoldLeft(_, _)
FoldLeft(paths, n) ==
  IF n = 1 THEN Some(paths[1])
  ELSE LET before == FoldLeft(paths, n - 1)
       IN IF before.some THEN common_ancestor(before.val, paths[n]) ELSE None

\* C11: common_ancestor_all is the left-to-right fold of common_ancestor:
\* absent for an empty collection or when a pairwise reduction is absent,
\* otherwise the longest component prefix shared by all the paths, in
\* whatever order the paths come; /foo/bar/baz, /foo/bar/bar, /foo/bar/foo
\* give exactly /foo/bar.
C11_CommonAncestorAll ==
  (pc = "returned" /\ fn = "common_ancestor_all") =>
    LET paths == args[1] IN
    /\ paths = <<>> => ret = None
    /\ paths # <<>> =>
         /\ ret = FoldLeft(paths, Len(paths))
         /\ ~ret.some <=> \E n \in 1..Len(paths) : ~FoldLeft(paths, n).some
         /\ ret.some => components(ret.val) = SharedPrefix(paths)
         /\ \A other \in Rearranged(paths) :
              LET r == common_ancestor_all(other)
              IN /\ r.some <=> ret.some
                 /\ r.some => PathEq(r.val, ret.val)
    /\ paths \in Rearranged(AllDoc) => ret = Some(<<"/", "foo", "/", "bar">>)
    /\ paths = AllTest => ret = Some(<<"/", "foo", "/", "bar">>)

\* Three paths that share /a and part ways below it, the first two later
\* than the third.
C11_Witness ==
  /\ pc = "returned" /\ fn = "common_ancestor_all"
  /\ args = << << <<"/", "a", "/", "b", "/", "src">>, <<"/", "a", "/", "b">>,
                  <<"/", "a", "/", "src">> >> >>
  /\ ret = Some(<<"/", "a">>)

\* ------------------------------------- claims: normalizer and canonicalizer

NormalizeReturned == pc = "returned" /\ fn = "normalize_solidity_import_path"

\* C12: the file system holds no symbolic link, and for every directory and
\* import normalize_solidity_import_path succeeds exactly when canonicalize
\* of the joined path does, and then both return the same path.
C12_NormalizeAgreesWithCanonicalize ==
  NormalizeReturned =>
    LET canonical == canonicalize(join(args[1], args[2]))
    IN /\ ret.ok <=> canonical.ok
       /\ ret.ok => PathEq(ret.val, canonical.val)

\* ------------------------------------------------ claims: the import scanner

\* The statements of a text as written: each runs up to a semicolon that is
\* not inside a string; acc holds their first and last positions.
RECURSIVE StatementSpans(_, _, _, _, _)
StatementSpans(s, i, q, start, acc) ==
  IF i > Len(s) THEN acc
  ELSE IF q # "" THEN StatementSpans(s, i + 1, IF s[i] = q THEN "" ELSE q, start, acc)
  ELSE IF s[i] \in {DQ, SQ} THEN StatementSpans(s, i + 1, s[i], start, acc)
  ELSE IF s[i] = ";" THEN StatementSpans(s, i + 1, "", i + 1, Append(acc, <<start, i>>))
  ELSE StatementSpans(s, i + 1, "", start, acc)

\* The path literal of the statement s[lo..hi] when it is an import: the
\* text between its first quote and the next quote of the same kind.
LiteralOf(s, lo, hi) ==
  LET first == Min({k \in lo..hi : ~IsSpaceTok(s[k])})
      open == Min({k \in lo..hi : s[k] \in {DQ, SQ}})
      close == Min({k \in (open + 1)..hi : s[k] = s[open]})
  IN IF s[first] = "import" /\ \E k \in lo..hi : s[k] \in {DQ, SQ}
     THEN <<SubSeq(s, open + 1, close - 1)>>
     ELSE <<>>

\* One literal per import statement, in source order.
ImportLiterals(s) ==
  LET spans == StatementSpans(s, 1, "", 1, <<>>)
  IN Concat([k \in 1..Len(spans) |-> LiteralOf(s, spans[k][1], spans[k][2])])

\* C13: find_import_paths yields exactly one path literal per import
\* statement of the text, in source order, whichever of the four quoting
\* slots matched; the literal is the text between the statement's own
\* quotes, and a text without import statements yields the empty sequence.
C13_OneLiteralPerImport ==
  (pc = "returned" /\ fn = "find_import_paths") =>
    /\ ret = ImportLiterals(args[1])
    /\ args[1] = TestSource => ret = TestImports

\* ------------------------------------------ claims: the library placeholders

\* C14: library_fully_qualified_placeholder returns exactly 36 characters
\* for every name: a name shorter than 36 followed by '_' up to 36, a name
\* of exactly 36 unchanged, a longer name cut to its first 36 characters.
C14_FullyQualifiedPlaceholder ==
  (pc = "returned" /\ fn = "library_fully_qualified_placeholder") =>
    LET name == args[1] IN
    /\ Len(ret) = 36
    /\ Len(name) < 36 =>
         /\ SubSeq(ret, 1, Len(name)) = name
         /\ \A i \in (Len(name) + 1)..36 : ret[i] = "_"
    /\ Len(name) = 36 => ret = name
    /\ Len(name) > 36 => ret = SubSeq(name, 1, 36)

\* A name of 40 characters whose 36th is a letter, cut after it.
C14_Witness ==
  /\ pc = "returned" /\ fn = "library_fully_qualified_placeholder"
  /\ Len(args[1]) = 40 /\ args[1][36] = "L"
  /\ Len(ret) = 36 /\ ret[36] = "L"

HashReturned == pc = "returned" /\ fn = "library_hash_placeholder"

CaseReturned == pc = "returned" /\ fn = "find_case_sensitive_existing_file"

\* The regular files directly in p's parent directory whose name is p's
\* file name in another case; none when p has no file name or parent, or
\* the parent is no directory that can be read.
CaseVariants(p) ==
  IF ~file_name(p).some \/ ~path_parent(p).some \/ ~exists(path_parent(p).val) THEN {}
  ELSE LET dir == CHOOSE n \in namei(path_parent(p).val, Len(path_parent(p).val)) : TRUE
           name == file_name(p).val
       IN IF ~IsDir(dir) THEN {}
          ELSE {f \in fs :
                  /\ IsFileNode(f)
                  /\ Len(f) = Len(dir) + 1 /\ SubSeq(f, 1, Len(dir)) = dir
                  /\ to_ascii_lowercase(f[Len(f)]) = to_ascii_lowercase(name)
                  /\ f[Len(f)] # name}

\* C16: for a path p that does not exist, find_case_sensitive_existing_file
\* returns a regular file directly in p's parent directory whose name is
\* p's file name with ASCII case ignored but not in exact case; it returns
\* absent when the parent directory has no such file or cannot be read, or
\* p has no file name or parent, and never a file of a subdirectory.
C16_CaseVariantNextToPath ==
  (CaseReturned /\ ~exists(args[1])) =>
    /\ ret.some =>
         /\ exists(ret.val)
         /\ namei(ret.val, Len(ret.val)) \subseteq CaseVariants(args[1])
    /\ CaseVariants(args[1]) = {} => ~ret.some
    /\ CaseVariants(args[1]) # {} => ret.some

====
